---- MODULE Spec2Model ----
(***************************************************************************)
(* Metropolis Monte Carlo of Lennard-Jones particles in a periodic cubic   *)
(* box: mm_2019_sss_1/mc.py (MC), mm_2019_sss_1/energy.py (Energy),        *)
(* mm_2019_ss_1_package/geom.py (Geom) and the older driver                *)
(* mm_2019_ss_1_package/mc.py.                                             *)
(*                                                                         *)
(* Number representation.  The program computes in IEEE doubles; the model *)
(* computes exactly.  Coordinates live on the integer lattice, so squared  *)
(* distances are integers.  A pair energy is an integer count of           *)
(* 1/EnergyScale, exact for the squared distances 1, 2, 3 that lie inside  *)
(* the cutoff 2, and NaN is what numpy yields (inf - inf) for coincident   *)
(* particles.  Every other float is a rational <<n, d>> in lowest terms,   *)
(* d > 0.  The tail correction is a rational multiple of pi; a reported    *)
(* energy a + b*pi is the record [q |-> a, pi |-> b], a in units of        *)
(* 1/EnergyScale.  A uniform draw u in [0,1) is given by its negative      *)
(* logarithm: u = exp(-t) for a rational t > 0, or u = 0.                  *)
(***************************************************************************)
EXTENDS Integers, Sequences, FiniteSets, TLC

(***************************************************************************)
(* Exact arithmetic standing for the float operations of numpy.            *)
(***************************************************************************)
Abs(n) == IF n < 0 THEN -n ELSE n

RECURSIVE GCD(_, _)
GCD(a, b) == IF b = 0 THEN a ELSE GCD(b, a % b)

Rat(n, d) ==
    LET g == GCD(Abs(n), Abs(d))
        s == IF d < 0 THEN -1 ELSE 1
    IN  <<(s * n) \div g, (s * d) \div g>>

FromInt(n) == <<n, 1>>

RMul(x, y) ==
    LET a == Rat(x[1], y[2])
        b == Rat(y[1], x[2])
    IN  <<a[1] * b[1], a[2] * b[2]>>

RDiv(x, y) == RMul(x, Rat(y[2], y[1]))

RSub(x, y) == Rat(x[1] * y[2] - y[1] * x[2], x[2] * y[2])

RNeg(x) == <<-x[1], x[2]>>

RLess(x, y) == x[1] * y[2] < y[1] * x[2]

RECURSIVE RPow(_, _)
RPow(x, k) == IF k = 0 THEN FromInt(1) ELSE RMul(x, RPow(x, k - 1))

\* pair energies: integer counts of 1/EnergyScale, and NaN
EnergyScale == 6 * 6 * 6 * 6 * 6 * 6

NaN == -(EnergyScale * 1024)

IsNaN(x) == x = NaN

FAdd(x, y) == IF IsNaN(x) \/ IsNaN(y) THEN NaN ELSE x + y

FSub(x, y) == IF IsNaN(x) \/ IsNaN(y) THEN NaN ELSE x - y

\* every float comparison with NaN is False
FLess(x, y) == ~IsNaN(x) /\ ~IsNaN(y) /\ x < y

RECURSIVE FSum(_)
FSum(s) == IF s = <<>> THEN 0 ELSE FAdd(Head(s), FSum(Tail(s)))

\* np.round on the quotient n / d (d > 0): round half to even
Round(n, d) ==
    LET q == n \div d
        r == n % d
    IN  IF 2 * r < d THEN q
        ELSE IF 2 * r > d THEN q + 1
        ELSE IF q % 2 = 0 THEN q ELSE q + 1

(***************************************************************************)
(* Geom: periodic geometry (mm_2019_ss_1_package/geom.py).                 *)
(* A coordinate is a triple of integers, coordinates a sequence of them.   *)
(***************************************************************************)
Dim == 3

\* an image taken with np.floor in place of np.round
image_floor(box_length, x) == x - box_length * (x \div box_length)

\* one component of  rij - box_length * np.round(rij / box_length)
image(box_length, x) == x - box_length * Round(x, box_length)

\* Geom.minimum_image_distance for one pair of points
minimum_image_distance(box_length, r_i, r_j) ==
    LET rij == [c \in 1..Dim |-> image(box_length, r_i[c] - r_j[c])]
    IN  rij[1] * rij[1] + rij[2] * rij[2] + rij[3] * rij[3]

\* Geom.wrap
wrap(box_length, v) == [c \in 1..Dim |-> image(box_length, v[c])]

(***************************************************************************)
(* Energy: Lennard-Jones pair energies (mm_2019_sss_1/energy.py).          *)
(***************************************************************************)
\* Energy.lennard_jones_potential, in units of 1/EnergyScale; 1 / 0 is inf
\* and inf - inf is NaN
lennard_jones_potential(rij2) ==
    IF rij2 = 0 THEN NaN
    ELSE LET sig_by_r6  == EnergyScale \div (rij2 * rij2 * rij2)
             sig_by_r12 == sig_by_r6 \div (rij2 * rij2 * rij2)
         IN  4 * (sig_by_r12 - sig_by_r6)

\* the indices np.delete(rij2, i_particle) keeps
Others(i_particle, n) == SelectSeq([j \in 1..n |-> j], LAMBDA j : j # i_particle)

\* a cutoff that keeps the pairs at exactly the cutoff distance
within_cutoff_le(rij2, cutoff) == rij2 <= cutoff * cutoff

\* whether a squared distance is kept by  red[red < self.cutoff2]
within_cutoff(rij2, cutoff) == rij2 < cutoff * cutoff

\* Energy.get_particle_energy
get_particle_energy(i_particle, coords, box_length, cutoff) ==
    LET rij2 == [j \in 1..Len(coords) |->
                    minimum_image_distance(box_length, coords[i_particle], coords[j])]
        red  == Others(i_particle, Len(coords))
        kept == SelectSeq(red, LAMBDA j : within_cutoff(rij2[j], cutoff))
        pot  == [k \in 1..Len(kept) |-> lennard_jones_potential(rij2[kept[k]])]
    IN  FSum(pot)

\* Energy.calculate_total_pair_energy
calculate_total_pair_energy(coords, box_length, cutoff) ==
    LET e_total == FSum([i \in 1..Len(coords) |->
                            get_particle_energy(i, coords, box_length, cutoff)])
    IN  IF IsNaN(e_total) THEN NaN ELSE e_total \div 2

\* Energy.calculate_tail_correction: the coefficient of pi
calculate_tail_correction(n, volume, cutoff) ==
    LET sig_by_cutoff3 == RPow(RDiv(FromInt(1), FromInt(cutoff)), 3)
        sig_by_cutoff9 == RPow(sig_by_cutoff3, 3)
        e_correction   == RSub(sig_by_cutoff9, RMul(FromInt(3), sig_by_cutoff3))
    IN  RMul(e_correction, RMul(RDiv(RMul(Rat(8, 9), FromInt(n)), FromInt(volume)), FromInt(n)))

\* (total_pair_energy + tail_correction) / num_particles, as a + b*pi
total_energy(pair, tail, n) == [q |-> Rat(pair, n), pi |-> RDiv(tail, FromInt(n))]

\* a pair energy stored into the trace as it is (no tail, no division)
bare_energy(pair) == [q |-> FromInt(pair), pi |-> FromInt(0)]

\* np.zeros(k)
zeros(k) == [j \in 1..k |-> bare_energy(0)]

(***************************************************************************)
(* State.                                                                  *)
(***************************************************************************)
VARIABLES
    pkg,                \* which driver is in use: "sss_1" or "ss_1_package"
    beta,               \* MC.beta
    n_trials,           \* MC._n_trials
    n_accept,           \* MC._n_accept
    max_displacement,   \* MC.max_displacement
    tune_displacement,  \* MC.tune_displacement
    energy_array,       \* MC._energy_array, index k of the code at k + 1
    current_step,       \* MC.current_step
    cutoff,             \* Energy.cutoff
    num_particles,      \* Geom.num_particles
    box_length,         \* Geom.box_length
    coordinates,        \* Geom.coordinates
    pc,                 \* where the caller or MC.run stands
    run,                \* the locals of the MC.run call in progress
    trial,              \* the locals of its latest trial move
    fs,                 \* the file system: directories, files, open handles
    raised,             \* the exception the latest call ended with, or "none"
    rng_draws,          \* how many values np.random has handed out
    pair_history,       \* total_pair_energy as it stood after each step
    calls,              \* calls begun and calls returned
    io                  \* the arguments and result of the latest constructor or file call

mcVars   == <<pkg, beta, n_trials, n_accept, max_displacement, tune_displacement,
              energy_array, current_step, cutoff>>
geomVars == <<num_particles, box_length, coordinates>>
vars     == <<mcVars, geomVars, pc, run, trial, fs, raised, rng_draws, pair_history,
              calls, io>>

(***************************************************************************)
(* Bounds and the small sets the inputs are drawn from.                    *)
(***************************************************************************)
MaxSteps == 2      \* steps one engine takes over all its run calls, and the
                   \* largest n_steps passed to run

MaxRuns == 2       \* run calls made on one engine

Freqs == {1, 2}    \* logging frequencies passed to run

Packages == {"sss_1", "ss_1_package"}

\* output directories passed to run (its default)
SaveDirs == {"./results"}

\* initial configurations of distinct lattice points, box_length 4
InitialCoordinates == { <<<<0, 0, 0>>, <<0, 1, 0>>, <<1, 0, 1>>>> }

\* trial displacements offered to a step; a step draws one whose components
\* lie in [-max_displacement, max_displacement)
Displacements == {<<0, 0, 0>>, <<0, -1, 0>>}

\* the uniform draw u = exp(-t), or u = 0
Draw(t) == [zero |-> FALSE, t |-> t]

DrawZero == [zero |-> TRUE, t |-> FromInt(0)]

Draws == {DrawZero, Draw(Rat(7, 16))}

NoDraw == [zero |-> FALSE, t |-> FromInt(0)]

(***************************************************************************)
(* MC: the Metropolis driver (mm_2019_sss_1/mc.py).                        *)
(***************************************************************************)
\* random_number < np.exp(-self.beta * delta_e) for u = exp(-t):
\* exp is increasing, so u < exp(-x) iff x < t; 0 < exp(-x) for the
\* energies of this lattice (no underflow); NaN compares False
less_than_exp(u, b, delta_e) ==
    IF IsNaN(delta_e) THEN FALSE
    ELSE IF u.zero THEN TRUE
    ELSE RLess(RMul(b, Rat(delta_e, EnergyScale)), u.t)

\* a decision that also takes delta_e = 0 without a draw
accept_or_reject_le(b, delta_e, u) ==
    IF ~IsNaN(delta_e) /\ delta_e <= 0
    THEN [accept |-> TRUE, drew |-> FALSE]
    ELSE [accept |-> less_than_exp(u, b, delta_e), drew |-> TRUE]

\* MC._accept_or_reject: the decision and whether it drew a random number
accept_or_reject(b, delta_e, u) ==
    IF FLess(delta_e, 0)
    THEN [accept |-> TRUE, drew |-> FALSE]
    ELSE [accept |-> less_than_exp(u, b, delta_e), drew |-> TRUE]

\* a tuning rule whose band excludes its edges
adjust_displacement_le(accepted, n, max_disp) ==
    LET acc_rate == Rat(accepted, n)
    IN  IF ~RLess(Rat(38, 100), acc_rate) THEN RMul(max_disp, Rat(8, 10))
        ELSE IF ~RLess(acc_rate, Rat(42, 100)) THEN RMul(max_disp, Rat(12, 10))
        ELSE max_disp

\* MC._adjust_displacement: the new max_displacement (n >= 1 trials)
adjust_displacement(accepted, n, max_disp) ==
    LET acc_rate == Rat(accepted, n)
    IN  IF RLess(acc_rate, Rat(38, 100)) THEN RMul(max_disp, Rat(8, 10))
        ELSE IF RLess(Rat(42, 100), acc_rate) THEN RMul(max_disp, Rat(12, 10))
        ELSE max_disp

\* (2.0 * np.random.rand(3) - 1.0) * self.max_displacement has every
\* component in [-max_displacement, max_displacement)
in_range(d, max_disp) ==
    \A c \in 1..Dim : ~RLess(FromInt(d[c]), RNeg(max_disp)) /\ RLess(FromInt(d[c]), max_disp)

\* Geom.volume
volume == box_length * box_length * box_length

\* '%s/snap_%d.txt' % (save_dir, k), and save_dir + "/results.log"
SnapPath(dir, k) == <<dir, "snap", k>>

LogPath(dir) == <<dir, "results.log", 0>>

exists(path) == path \in DOMAIN fs.files

\* a save_state that does not look at the path first
already_exists_unchecked(path) == FALSE

\* Geom.save_state, lines 112-113: the path exists and ValueError is raised
already_exists(path) == exists(path)

\* what Geom.save_state writes: the box length three times, the particle
\* count, then np.savetxt's rows of the three coordinates
snapshot_text(len, n, coords) ==
    <<<<len, len, len>>, <<n>>>> \o [k \in 1..Len(coords) |-> coords[k]]

NoRun == [n_steps |-> 0, freq |-> 1, save_dir |-> "./results", save_snaps |-> FALSE,
          i_step |-> 0, tail_correction |-> FromInt(0), total_pair_energy |-> 0,
          log |-> LogPath("./results"), start_step |-> 0]

NoTrial == [i_particle |-> 0, random_displacement |-> <<0, 0, 0>>,
            old_coordinate |-> <<0, 0, 0>>,
            proposed_coordinate |-> <<0, 0, 0>>, delta_e |-> 0,
            random_number |-> NoDraw, accept |-> FALSE]

NoIO == [op |-> "none"]

EmptyFS == [dirs |-> {}, files |-> <<>>, handles |-> 0]

\* the engine MC.__init__ leaves for method = 'random' with valid arguments
Init ==
    /\ pkg \in Packages
    /\ beta = RDiv(FromInt(1), FromInt(1))
    /\ n_trials = 0
    /\ n_accept = 0
    /\ max_displacement = FromInt(1)
    /\ tune_displacement \in BOOLEAN
    /\ energy_array = <<>>
    /\ current_step = 0
    /\ cutoff = 2
    /\ coordinates \in InitialCoordinates
    /\ num_particles = Len(coordinates)
    /\ box_length = 4
    /\ pc = "idle"
    /\ run = NoRun
    /\ trial = NoTrial
    /\ fs = EmptyFS
    /\ raised = "none"
    /\ rng_draws = 0
    /\ pair_history = <<>>
    /\ calls = [begun |-> 0, returned |-> 0]
    /\ io = NoIO

(***************************************************************************)
(* MC.run, in four pieces: the code before the loop, one trial move, the   *)
(* logging checkpoint that ends a loop iteration, and the code after the   *)
(* loop.  A call that raises returns control to the caller (pc = "idle")   *)
(* with the engine as the exception left it.                               *)
(***************************************************************************)
\* the log file run opens: sss_1 writes a fresh "./results/results.log" when
\* save_dir holds no log and appends to save_dir's log otherwise; the older
\* driver always rewrites "./results/results.log"
log_target(dir) ==
    IF pkg = "sss_1" /\ exists(LogPath(dir)) THEN LogPath(dir) ELSE LogPath("./results")

log_appends(dir) == pkg = "sss_1" /\ exists(LogPath(dir))

\* np.append(self._energy_array, np.zeros(...)) and the write of index 0
extended_array(n_steps, pair) ==
    IF current_step = 0
    THEN [energy_array \o zeros(n_steps + 1) EXCEPT ![1] = bare_energy(pair)]
    ELSE energy_array \o zeros(n_steps)

\* lines 218-237 for the arguments (n_steps, freq, save_dir, save_snaps)
RunBegin ==
    /\ pc = "idle"
    /\ calls.begun < MaxRuns
    /\ \E tail \in {calculate_tail_correction(num_particles, volume, cutoff)},
          pair \in {calculate_total_pair_energy(coordinates, box_length, cutoff)},
          n_steps \in 0..MaxSteps, freq \in Freqs, save_dir \in SaveDirs,
          save_snaps \in BOOLEAN :
        /\ LET dirs == fs.dirs \cup {save_dir}
               log  == log_target(save_dir)
           IN  IF log[1] \notin dirs
               THEN \* open() of a file in a directory that does not exist
                    /\ fs' = [fs EXCEPT !.dirs = dirs]
                    /\ raised' = "FileNotFoundError"
                    /\ calls' = [calls EXCEPT !.begun = @ + 1]
                    /\ UNCHANGED <<mcVars, geomVars, pc, run, trial, rng_draws,
                                   pair_history, io>>
               ELSE /\ fs' = [dirs    |-> dirs,
                              files   |-> IF log_appends(save_dir)
                                          THEN fs.files
                                          ELSE [f \in DOMAIN fs.files \cup {log} |->
                                                   IF f = log THEN <<>> ELSE fs.files[f]],
                              handles |-> fs.handles + 1]
                    /\ run' = [n_steps |-> n_steps, freq |-> freq, save_dir |-> save_dir,
                               save_snaps |-> save_snaps, i_step |-> 0,
                               tail_correction |-> tail, total_pair_energy |-> pair,
                               log |-> log, start_step |-> current_step]
                    /\ energy_array' = extended_array(n_steps, pair)
                    /\ pair_history' = IF current_step = 0 THEN <<pair>> ELSE pair_history
                    /\ pc' = "loop"
                    /\ raised' = "none"
                    /\ calls' = [calls EXCEPT !.begun = @ + 1]
                    /\ UNCHANGED <<pkg, beta, n_trials, n_accept, max_displacement,
                                   tune_displacement, current_step, cutoff, geomVars, trial,
                                   rng_draws, io>>

\* an accumulator that takes delta_e whatever the decision
accumulated_always(accept, total_pair_energy, delta_e) == FAdd(total_pair_energy, delta_e)

\* lines 256-257: total_pair_energy += delta_e on accept
accumulated(accept, total_pair_energy, delta_e) ==
    IF accept THEN FAdd(total_pair_energy, delta_e) ELSE total_pair_energy

\* a rejected move whose old coordinate is put back in the first row
settled_first_row(accept, moved, i_particle, old_coordinate) ==
    IF accept THEN moved ELSE [moved EXCEPT ![1] = old_coordinate]

\* a rejected move that is left in place
settled_no_restore(accept, moved, i_particle, old_coordinate) == moved

\* lines 256-260: the coordinates after the decision; a rejected move puts
\* old_coordinate back
settled(accept, moved, i_particle, old_coordinate) ==
    IF accept THEN moved ELSE [moved EXCEPT ![i_particle] = old_coordinate]

\* lines 241-263: one trial move of particle i_particle by random_displacement,
\* decided with the uniform draw u when the decision needs one
Trial ==
    /\ pc = "loop"
    /\ run.i_step < run.n_steps
    /\ current_step < MaxSteps
    /\ \E i_particle \in 1..num_particles, random_displacement \in Displacements :
        /\ in_range(random_displacement, max_displacement)
        /\ \E current_energy \in
                 {get_particle_energy(i_particle, coordinates, box_length, cutoff)},
              old_coordinate \in {coordinates[i_particle]} :
           \E proposed_coordinate \in
                 {wrap(box_length,
                       [c \in 1..Dim |-> old_coordinate[c] + random_displacement[c]])} :
           \E moved \in {[coordinates EXCEPT ![i_particle] = proposed_coordinate]} :
           \E proposed_energy \in
                 {get_particle_energy(i_particle, moved, box_length, cutoff)} :
           \E delta_e \in {FSub(proposed_energy, current_energy)}, u \in Draws :
           \E decision \in {accept_or_reject(beta, delta_e, u)} :
           \E pair \in {accumulated(decision.accept, run.total_pair_energy, delta_e)} :
              /\ current_step' = current_step + 1
              /\ n_trials' = n_trials + 1
              /\ n_accept' = IF decision.accept THEN n_accept + 1 ELSE n_accept
              /\ coordinates' = settled(decision.accept, moved, i_particle, old_coordinate)
              /\ run' = [run EXCEPT !.i_step = @ + 1, !.total_pair_energy = pair]
              /\ energy_array' = [energy_array EXCEPT ![current_step + 2] =
                                     total_energy(pair, run.tail_correction, num_particles)]
              /\ pair_history' = Append(pair_history, pair)
              /\ trial' = [i_particle |-> i_particle,
                           random_displacement |-> random_displacement,
                           old_coordinate |-> old_coordinate,
                           proposed_coordinate |-> proposed_coordinate,
                           delta_e |-> delta_e,
                           random_number |-> IF decision.drew THEN u ELSE NoDraw,
                           accept |-> decision.accept]
              /\ rng_draws' = rng_draws + 1 + Dim + (IF decision.drew THEN 1 ELSE 0)
    /\ pc' = "check"
    /\ UNCHANGED <<pkg, beta, max_displacement, tune_displacement, cutoff, num_particles,
                   box_length, fs, raised, calls, io>>

\* np.mod(i_step + 1, freq) == 0
log_event == (run.i_step + 1) % run.freq = 0

\* the step number a log line carries
log_line == IF pkg = "sss_1" THEN current_step + 1 ELSE run.i_step + 1

\* Geom.save_state on a path that is free
save_state(files, path, len, n, coords) ==
    [f \in DOMAIN files \cup {path} |->
        IF f = path THEN snapshot_text(len, n, coords) ELSE files[f]]

\* a tuning event that does not look at tune_displacement
Tuned_always ==
    /\ max_displacement' = adjust_displacement(n_accept, n_trials, max_displacement)
    /\ n_trials' = 0
    /\ n_accept' = 0

\* a tuning event that forgets to reset the accept counter
Tuned_keeps_accept ==
    /\ max_displacement' = IF tune_displacement
                           THEN adjust_displacement(n_accept, n_trials, max_displacement)
                           ELSE max_displacement
    /\ n_trials' = IF tune_displacement THEN 0 ELSE n_trials
    /\ n_accept' = n_accept

\* lines 271-272: self._adjust_displacement() when tune_displacement is set
Tuned ==
    /\ max_displacement' = IF tune_displacement
                           THEN adjust_displacement(n_accept, n_trials, max_displacement)
                           ELSE max_displacement
    /\ n_trials' = IF tune_displacement THEN 0 ELSE n_trials
    /\ n_accept' = IF tune_displacement THEN 0 ELSE n_accept

\* lines 265-272, no logging event at this step
CheckpointSkip ==
    /\ pc = "check"
    /\ ~log_event
    /\ pc' = "loop"
    /\ UNCHANGED <<mcVars, geomVars, run, trial, fs, raised, rng_draws, pair_history,
                   calls, io>>

\* lines 265-272, a logging event whose snapshot (if any) is written
CheckpointLog ==
    /\ pc = "check"
    /\ log_event
    /\ ~(run.save_snaps /\ already_exists(SnapPath(run.save_dir, run.i_step + 1)))
    /\ LET logged == [fs.files EXCEPT ![run.log] = Append(@, log_line)]
       IN  fs' = [fs EXCEPT !.files =
                      IF run.save_snaps
                      THEN save_state(logged, SnapPath(run.save_dir, run.i_step + 1),
                                      box_length, num_particles, coordinates)
                      ELSE logged]
    /\ Tuned
    /\ pc' = "loop"
    /\ UNCHANGED <<pkg, beta, tune_displacement, energy_array, current_step, cutoff,
                   geomVars, run, trial, raised, rng_draws, pair_history, calls, io>>

\* lines 265-270, a logging event whose snapshot path exists: Geom.save_state
\* raises ValueError("File already exists!") and run ends there, its log open
CheckpointRaise ==
    /\ pc = "check"
    /\ log_event
    /\ run.save_snaps /\ already_exists(SnapPath(run.save_dir, run.i_step + 1))
    /\ fs' = [fs EXCEPT !.files[run.log] = Append(@, log_line)]
    /\ raised' = "ValueError"
    /\ pc' = "idle"
    /\ UNCHANGED <<mcVars, geomVars, run, trial, rng_draws, pair_history, calls, io>>

\* lines 273-277: the performance figure and log.close()
RunEnd ==
    /\ pc = "loop"
    /\ run.i_step = run.n_steps
    /\ ~(pkg = "sss_1" /\ run.n_steps = 0)
    /\ fs' = [fs EXCEPT !.handles = @ - 1]
    /\ calls' = [calls EXCEPT !.returned = @ + 1]
    /\ pc' = "idle"
    /\ UNCHANGED <<mcVars, geomVars, run, trial, raised, rng_draws, pair_history, io>>

\* line 273 with n_steps = 0: (time.time() - start) / n_steps raises
\* ZeroDivisionError before log.close()
RunEndRaise ==
    /\ pc = "loop"
    /\ run.i_step = run.n_steps
    /\ pkg = "sss_1" /\ run.n_steps = 0
    /\ raised' = "ZeroDivisionError"
    /\ pc' = "idle"
    /\ UNCHANGED <<mcVars, geomVars, run, trial, fs, rng_draws, pair_history, calls, io>>

Next ==
    \/ RunBegin
    \/ Trial
    \/ CheckpointSkip
    \/ CheckpointLog
    \/ CheckpointRaise
    \/ RunEnd
    \/ RunEndRaise

Spec == Init /\ [][Next]_vars

(***************************************************************************)
(* The claims about MC.run, checked under Spec.                            *)
(***************************************************************************)
\* the tail correction of this engine (it is the same in every run call)
engine_tail == calculate_tail_correction(num_particles, volume, cutoff)

\* a trial move has just been made (lines 241-263)
TrialStep == pc = "loop" /\ pc' = "check"

\* C1: after any sequence of run calls, for every index k from 0 to
\* current_step the trace entry k equals
\* (running pair energy after step k + tail correction) / N
C1_TraceIsEnergyPerParticle ==
    (pc = "idle" /\ energy_array # <<>>) =>
        \A k \in 0..current_step :
            energy_array[k + 1] =
                total_energy(pair_history[k + 1], engine_tail, num_particles)

\* C2: after one or more completed run calls, each of n >= 0 steps, the
\* trace holds exactly current_step + 1 entries
C2_TraceLength ==
    (pc = "idle" /\ calls.begun >= 1 /\ calls.returned = calls.begun) =>
        Len(energy_array) = current_step + 1

\* C3: a run(n) call on an engine that has taken s > 0 steps leaves the trace
\* entries 0..s as they were, and ends with current_step = s + n
C3_ResumeContinues ==
    [][/\ (pc' # "idle" /\ run'.start_step > 0) =>
              \A k \in 1..(run'.start_step + 1) : energy_array'[k] = energy_array[k]
       /\ (pc # "idle" /\ pc' = "idle" /\ run.start_step > 0) =>
              current_step' = run.start_step + run.n_steps]_vars

C5_AcceptanceRule ==
    [][TrialStep =>
          LET delta == trial'.delta_e
              u     == trial'.random_number
              drawn == rng_draws' - rng_draws - (1 + Dim)
          IN  /\ (~IsNaN(delta) /\ delta < 0) => (trial'.accept /\ drawn = 0)
              /\ (~IsNaN(delta) /\ delta >= 0) =>
                     /\ drawn = 1
                     /\ u \in Draws
                     /\ trial'.accept <=>
                            (u.zero \/ beta[1] * delta * u.t[2]
                                          < u.t[1] * beta[2] * EnergyScale)]_vars

\* C5 witness: a move up in energy accepted on its draw, right after a
\* rejected move
C5_Witness ==
    /\ pc = "check"
    /\ trial.accept /\ trial.delta_e > 0 /\ trial.random_number = DrawZero
    /\ n_trials = 2 /\ n_accept = 1

(***************************************************************************)
(* MC._adjust_displacement on its own (mc.py lines 127-147): the counters  *)
(* of a logging window of TuneTrials trial moves, with any number of them  *)
(* accepted.  19/50 and 38/100 are the rate 0.38, 21/50 and 42/100 the     *)
(* rate 0.42: float(a) / float(n) is the correctly rounded quotient, which *)
(* for these is the very float the literals 0.38 and 0.42 denote.          *)
(***************************************************************************)
TuneTrials == {1, 50, 100}

TuneDisplacements == {FromInt(1), Rat(1, 2), Rat(8, 10)}

TuneInit ==
    /\ pkg \in Packages
    /\ beta = RDiv(FromInt(1), FromInt(1))
    /\ n_trials \in TuneTrials
    /\ n_accept \in 0..n_trials
    /\ max_displacement \in TuneDisplacements
    /\ tune_displacement = TRUE
    /\ energy_array = <<>>
    /\ current_step = 0
    /\ cutoff = 2
    /\ coordinates \in InitialCoordinates
    /\ num_particles = Len(coordinates)
    /\ box_length = 4
    /\ pc = "tune"
    /\ run = NoRun
    /\ trial = NoTrial
    /\ fs = EmptyFS
    /\ raised = "none"
    /\ rng_draws = 0
    /\ pair_history = <<>>
    /\ calls = [begun |-> 0, returned |-> 0]
    /\ io = NoIO

\* one call of MC._adjust_displacement; io keeps what it was called with
AdjustDisplacement ==
    /\ pc = "tune"
    /\ max_displacement' = adjust_displacement(n_accept, n_trials, max_displacement)
    /\ n_trials' = 0
    /\ n_accept' = 0
    /\ io' = [op |-> "_adjust_displacement", n_trials |-> n_trials,
              n_accept |-> n_accept, max_displacement |-> max_displacement]
    /\ pc' = "tuned"
    /\ UNCHANGED <<pkg, beta, tune_displacement, energy_array, current_step, cutoff,
                   geomVars, run, trial, fs, raised, rng_draws, pair_history, calls>>

TuneNext == AdjustDisplacement

SpecTune == TuneInit /\ [][TuneNext]_vars

\* C6: the tuning rule, called with n_trials >= 1, multiplies
\* max_displacement by exactly 0.8 when n_accept / n_trials < 0.38, by
\* exactly 1.2 when the rate is > 0.42, leaves it as it is when
\* 0.38 <= rate <= 0.42, and in all three cases sets both counters to zero
C6_TuningRule ==
    [][(pc = "tune" /\ pc' = "tuned" /\ n_trials >= 1) =>
          LET old == max_displacement
              new == max_displacement'
          IN  /\ 100 * n_accept < 38 * n_trials =>
                     10 * new[1] * old[2] = 8 * old[1] * new[2]
              /\ 100 * n_accept > 42 * n_trials =>
                     10 * new[1] * old[2] = 12 * old[1] * new[2]
              /\ (38 * n_trials <= 100 * n_accept /\ 100 * n_accept <= 42 * n_trials) =>
                     new = old
              /\ n_trials' = 0
              /\ n_accept' = 0]_vars

\* C6 witness: the rule has run on a rate of exactly 0.38 and left
\* max_displacement alone
C6_Witness ==
    /\ pc = "tuned"
    /\ io.op = "_adjust_displacement"
    /\ io.n_trials = 50 /\ io.n_accept = 19
    /\ max_displacement = io.max_displacement
    /\ n_trials = 0 /\ n_accept = 0

(***************************************************************************)
(* Construction: MC.__init__ (mc.py lines 81-99) and the Geom it builds    *)
(* (geom.py lines 27-49).  An optional argument is <<>> when it is left at *)
(* None and <<v>> when it is given as v.  A file is a sequence of lines,   *)
(* a line the sequence of the numbers on it.                               *)
(***************************************************************************)
None == <<>>

Some(v) == <<v>>

ConfigPath(name) == <<".", name, 0>>

\* a configuration file in the format Geom reads (an index and three
\* coordinates a row), and one whose count disagrees with its rows
SampleText == <<<<4>>, <<3>>, <<1, 0, 0, 0>>, <<2, 0, 1, 0>>, <<3, 1, 0, 1>>>>

InconsistentText == <<<<4>>, <<2>>, <<1, 0, 0, 0>>, <<2, 0, 1, 0>>, <<3, 1, 0, 1>>>>

ConfigFS ==
    [dirs |-> {},
     files |-> [f \in {ConfigPath("sample.txt"), ConfigPath("inconsistent.txt")} |->
                   IF f = ConfigPath("sample.txt") THEN SampleText ELSE InconsistentText],
     handles |-> 0]

\* np.cbrt of a rational whose cube root is an integer
cbrt(x) == CHOOSE r \in -4..4 : r * r * r * x[2] = x[1]

\* np.fromstring(line, dtype=float, sep=',')[0]: the first number of the line
fromstring_first(line) == line[1]

\* np.loadtxt(file_name, skiprows=2, usecols=(1,2,3)) needs a fourth column
\* in every row
usecols_out_of_range(text) ==
    \E k \in 3..Len(text) : Len(text[k]) < 4

\* what np.loadtxt returns: columns 1, 2, 3 (counting from 0) of the rows
\* after the first two, as a 1-D array when there is one row
loadtxt(text) ==
    LET picked == [k \in 1..(Len(text) - 2) |->
                      <<text[k + 2][2], text[k + 2][3], text[k + 2][4]>>]
    IN  IF Len(picked) = 1 THEN picked[1] ELSE picked

\* the exception np.loadtxt raises for a column that is not there depends
\* on the numpy in use
UsecolsErrors == {"IndexError", "ValueError"}

\* Geom.generate_initial_state, method 'file' (geom.py lines 35-46)
generate_from_file(files, file_name, usecols_error) ==
    IF file_name = None THEN [raised |-> "ValueError"]
    ELSE IF file_name[1] \notin DOMAIN files THEN [raised |-> "FileNotFoundError"]
    ELSE LET text == files[file_name[1]]
         IN  IF usecols_out_of_range(text) THEN [raised |-> usecols_error]
             ELSE IF fromstring_first(text[2]) # Len(loadtxt(text))
                  THEN [raised |-> "ValueError"]
                  ELSE [raised |-> "none",
                        box_length |-> fromstring_first(text[1]),
                        num_particles |-> fromstring_first(text[2]),
                        coordinates |-> loadtxt(text)]

\* Geom.generate_initial_state, method 'random' (geom.py lines 27-33), with
\* the random coordinates it drew; Python's float division raises on 0.0
generate_random(num_particles_arg, reduced_den, drawn) ==
    IF num_particles_arg = None \/ reduced_den = None THEN [raised |-> "ValueError"]
    ELSE IF reduced_den[1][1] = 0 THEN [raised |-> "ZeroDivisionError"]
    ELSE [raised |-> "none",
          box_length |-> cbrt(RDiv(FromInt(num_particles_arg[1]), reduced_den[1])),
          num_particles |-> num_particles_arg[1],
          coordinates |-> drawn]

\* Geom.generate_initial_state (geom.py lines 27-49): "method is 'random'"
\* compares identities, true of a caller's string only when it is the
\* interned one
generate_initial_state(method, interned, num_particles_arg, reduced_den, file_name, files, drawn, usecols_error) ==
    IF interned /\ method = "random"
    THEN generate_random(num_particles_arg, reduced_den, drawn)
    ELSE IF interned /\ method = "file"
         THEN generate_from_file(files, file_name, usecols_error)
         ELSE [raised |-> "TypeError"]

\* MC.__init__ (mc.py lines 81-99): the exception it raises, or the Geom it
\* keeps; None < 0.0 is a TypeError
mc_init(method, interned, reduced_temp, num_particles_arg, reduced_den, file_name, files, drawn, usecols_error) ==
    IF reduced_temp = 0 THEN [raised |-> "ZeroDivisionError"]
    ELSE IF method \notin {"random", "file"} THEN [raised |-> "ValueError"]
    ELSE LET geom == generate_initial_state(method, interned, num_particles_arg,
                                            reduced_den, file_name, files, drawn,
                                            usecols_error)
         IN  IF geom.raised # "none" THEN geom
             ELSE IF reduced_den = None THEN [raised |-> "TypeError"]
             ELSE IF RLess(reduced_den[1], FromInt(0)) \/ reduced_temp < 0
                  THEN [raised |-> "ValueError"]
                  ELSE geom

Methods == {"random", "file", "grid"}

Temperatures == {-1, 0, 1}

Densities == {None, Some(Rat(3, 64)), Some(FromInt(0)), Some(Rat(-3, 64))}

ParticleCounts == {None, Some(3)}

FileNames == {None, Some(ConfigPath("sample.txt")), Some(ConfigPath("inconsistent.txt")),
              Some(ConfigPath("missing.txt"))}

\* no engine yet; the configuration files are on disk
NewInit ==
    /\ pkg \in Packages
    /\ beta = FromInt(0)
    /\ n_trials = 0
    /\ n_accept = 0
    /\ max_displacement = FromInt(0)
    /\ tune_displacement = FALSE
    /\ energy_array = <<>>
    /\ current_step = 0
    /\ cutoff = 0
    /\ coordinates = <<>>
    /\ num_particles = 0
    /\ box_length = 0
    /\ pc = "absent"
    /\ run = NoRun
    /\ trial = NoTrial
    /\ fs = ConfigFS
    /\ raised = "none"
    /\ rng_draws = 0
    /\ pair_history = <<>>
    /\ calls = [begun |-> 0, returned |-> 0]
    /\ io = NoIO

\* MC(method, reduced_temp, 1.0, 2.0, num_particles, file_name, True,
\* reduced_den); a call that raises yields no engine
MCNew ==
    /\ pc = "absent"
    /\ \E method \in Methods, interned \in BOOLEAN, reduced_temp \in Temperatures,
          num_particles_arg \in ParticleCounts, reduced_den \in Densities,
          file_name \in FileNames, drawn \in InitialCoordinates,
          usecols_error \in UsecolsErrors :
         \E out \in {mc_init(method, interned, reduced_temp, num_particles_arg,
                             reduced_den, file_name, fs.files, drawn, usecols_error)} :
            /\ io' = [op |-> "MC", method |-> method, interned |-> interned,
                      reduced_temp |-> reduced_temp, num_particles |-> num_particles_arg,
                      reduced_den |-> reduced_den, file_name |-> file_name]
            /\ raised' = out.raised
            /\ rng_draws' = IF /\ reduced_temp # 0
                               /\ interned /\ method = "random"
                               /\ num_particles_arg # None /\ reduced_den # None
                               /\ reduced_den[1][1] # 0
                            THEN rng_draws + Dim * num_particles_arg[1]
                            ELSE rng_draws
            /\ IF out.raised = "none"
               THEN /\ beta' = RDiv(FromInt(1), FromInt(reduced_temp))
                    /\ max_displacement' = FromInt(1)
                    /\ tune_displacement' = TRUE
                    /\ cutoff' = 2
                    /\ num_particles' = out.num_particles
                    /\ box_length' = out.box_length
                    /\ coordinates' = out.coordinates
                    /\ pc' = "idle"
               ELSE /\ pc' = "failed"
                    /\ UNCHANGED <<beta, max_displacement, tune_displacement, cutoff,
                                   geomVars>>
    /\ UNCHANGED <<pkg, n_trials, n_accept, energy_array, current_step, run, trial, fs,
                   pair_history, calls>>

\* whether MC.get_energy raises: mm_2019_sss_1 tests len(...) == 0, the older
\* driver tests "is None", which np.array([]) never is
get_energy_raises(package, array) ==
    IF package = "sss_1" THEN Len(array) = 0 ELSE FALSE

\* MC.get_energy() on the engine just constructed; io keeps what it returned
GetEnergy ==
    /\ pc = "idle"
    /\ IF get_energy_raises(pkg, energy_array)
       THEN /\ raised' = "ValueError"
            /\ io' = [op |-> "get_energy", returned |-> FALSE, trace |-> <<>>]
       ELSE /\ raised' = "none"
            /\ io' = [op |-> "get_energy", returned |-> TRUE, trace |-> energy_array]
    /\ UNCHANGED <<mcVars, geomVars, pc, run, trial, fs, rng_draws, pair_history, calls>>

NewNext ==
    \/ MCNew
    \/ GetEnergy

SpecNew == NewInit /\ [][NewNext]_vars

\* C7: constructing the engine raises ValueError and yields no engine
\* whenever the method is neither 'random' nor 'file', or the reduced
\* density is <= 0, or the reduced temperature is <= 0 (zero included)
C7_InvalidArgumentsRaise ==
    (/\ io.op = "MC"
     /\ \/ io.method \notin {"random", "file"}
        \/ (io.reduced_den # None /\ io.reduced_den[1][1] <= 0)
        \/ io.reduced_temp <= 0)
        => (raised = "ValueError" /\ pc # "idle")

\* C8: constructing the engine with method 'file', a consistent
\* configuration file, a positive reduced temperature and neither particle
\* count nor reduced density succeeds
C8_FileNeedsNoDensity ==
    (/\ io.op = "MC"
     /\ io.method = "file"
     /\ io.file_name = Some(ConfigPath("sample.txt"))
     /\ io.reduced_temp > 0
     /\ io.num_particles = None
     /\ io.reduced_den = None)
        => (raised = "none" /\ pc = "idle")

(***************************************************************************)
(* Saving and reloading a box: Geom.save_state (geom.py lines 100-120) and *)
(* Geom(method='file', file_name=...) (geom.py lines 35-46), on a disk     *)
(* that holds sample.txt.  '%.18e' prints 19 significant digits, which     *)
(* read back as the float that was printed, and '%d' prints the particle   *)
(* count, an integer, in full: a number on a line stands for its text.     *)
(***************************************************************************)
MaxFileOps == 3    \* save_state and Geom calls made in one behaviour

FilePaths == {ConfigPath("sample.txt"), ConfigPath("a.txt"), ConfigPath("b.txt")}

FreshPaths == {ConfigPath("a.txt"), ConfigPath("b.txt")}

FileCoordinates ==
    { <<<<1, 0, -1>>>>,
      <<<<0, 0, 0>>, <<0, 1, 0>>>>,
      <<<<0, 0, 0>>, <<0, 1, 0>>, <<1, 0, 1>>>>,
      <<<<1, 0, 1>>, <<0, 1, 0>>, <<0, 0, 0>>>> }

FileInit ==
    /\ pkg \in Packages
    /\ beta = RDiv(FromInt(1), FromInt(1))
    /\ n_trials = 0
    /\ n_accept = 0
    /\ max_displacement = FromInt(1)
    /\ tune_displacement = TRUE
    /\ energy_array = <<>>
    /\ current_step = 0
    /\ cutoff = 2
    /\ coordinates \in FileCoordinates
    /\ num_particles = Len(coordinates)
    /\ box_length = 4
    /\ pc = "idle"
    /\ run = NoRun
    /\ trial = NoTrial
    /\ fs = [dirs |-> {},
             files |-> [f \in {ConfigPath("sample.txt")} |-> SampleText],
             handles |-> 0]
    /\ raised = "none"
    /\ rng_draws = 0
    /\ pair_history = <<>>
    /\ calls = [begun |-> 0, returned |-> 0]
    /\ io = NoIO

\* Geom.save_state(path)
SaveState ==
    /\ pc = "idle"
    /\ calls.begun < MaxFileOps
    /\ \E path \in FilePaths :
          /\ io' = [op |-> "save_state", file_name |-> Some(path)]
          /\ IF already_exists(path)
             THEN /\ raised' = "ValueError"
                  /\ calls' = [calls EXCEPT !.begun = @ + 1]
                  /\ fs' = fs
             ELSE /\ raised' = "none"
                  /\ calls' = [begun |-> calls.begun + 1, returned |-> calls.returned + 1]
                  /\ fs' = [fs EXCEPT !.files = save_state(fs.files, path, box_length,
                                                           num_particles, coordinates)]
    /\ UNCHANGED <<mcVars, geomVars, pc, run, trial, rng_draws, pair_history>>

\* Geom(method='file', file_name=path), the method given as the literal; io
\* keeps the Geom it built
GeomFromFile ==
    /\ pc = "idle"
    /\ calls.begun < MaxFileOps
    /\ \E path \in FilePaths, usecols_error \in UsecolsErrors :
         \E out \in {generate_initial_state("file", TRUE, None, None, Some(path),
                                            fs.files, <<>>, usecols_error)} :
            /\ io' = [op |-> "Geom", file_name |-> Some(path), geom |-> out]
            /\ raised' = out.raised
            /\ calls' = [begun |-> calls.begun + 1,
                         returned |-> calls.returned + (IF out.raised = "none" THEN 1 ELSE 0)]
    /\ UNCHANGED <<mcVars, geomVars, pc, run, trial, fs, rng_draws, pair_history>>

FileNext ==
    \/ SaveState
    \/ GeomFromFile

SpecFile == FileInit /\ [][FileNext]_vars

\* C9: save_state(path) on a path that exists raises the already-exists
\* error (ValueError) and leaves every file as it was, writing nothing; on a
\* path that does not exist it writes that file and touches no other
C9_SaveStateNeverOverwrites ==
    [][(calls'.begun # calls.begun /\ io'.op = "save_state") =>
          LET path == io'.file_name[1]
          IN  /\ path \in DOMAIN fs.files =>
                     (raised' = "ValueError" /\ fs' = fs)
              /\ path \notin DOMAIN fs.files =>
                     /\ raised' = "none"
                     /\ DOMAIN fs'.files = DOMAIN fs.files \cup {path}
                     /\ \A p \in DOMAIN fs.files : fs'.files[p] = fs.files[p]]_vars

\* C9 witness: a box was saved to a.txt, and a second save_state to a.txt
\* has raised
C9_Witness ==
    /\ io.op = "save_state"
    /\ io.file_name = Some(ConfigPath("a.txt"))
    /\ raised = "ValueError"
    /\ calls.begun = 2 /\ calls.returned = 1
    /\ fs.files[ConfigPath("a.txt")] = snapshot_text(box_length, num_particles, coordinates)

\* C10: save_state to a fresh path followed by Geom(method='file') on that
\* path succeeds and gives the same particle count, the same box length and
\* the same coordinates in the same order
C10_RoundTrip ==
    (/\ io.op = "Geom"
     /\ io.file_name[1] \in FreshPaths
     /\ exists(io.file_name[1]))
        => /\ io.geom.raised = "none"
           /\ io.geom.num_particles = num_particles
           /\ io.geom.box_length = box_length
           /\ io.geom.coordinates = coordinates

(***************************************************************************)
(* Geom.wrap and Geom.minimum_image_distance on their own (geom.py lines   *)
(* 51-85), for boxes of several lengths and integer vectors; with an even  *)
(* box_length the odd multiples of box_length / 2 are among them, and      *)
(* v / box_length is then an exact float ending in .5.                     *)
(***************************************************************************)
MaxCoord == 5      \* largest component of a vector handed to Geom

GeomLengths == {3, 4, 10}

Vectors == [1..Dim -> (-MaxCoord)..MaxCoord]

Points == {<<0, 0, 0>>, <<1, 0, 0>>, <<1, -2, 3>>}

Shifts == {<<1, 0, 0>>, <<-1, 2, 0>>, <<3, -2, 1>>}

GeomInit ==
    /\ pkg \in Packages
    /\ beta = RDiv(FromInt(1), FromInt(1))
    /\ n_trials = 0
    /\ n_accept = 0
    /\ max_displacement = FromInt(1)
    /\ tune_displacement = TRUE
    /\ energy_array = <<>>
    /\ current_step = 0
    /\ cutoff = 2
    /\ coordinates \in InitialCoordinates
    /\ num_particles = Len(coordinates)
    /\ box_length \in GeomLengths
    /\ pc = "idle"
    /\ run = NoRun
    /\ trial = NoTrial
    /\ fs = EmptyFS
    /\ raised = "none"
    /\ rng_draws = 0
    /\ pair_history = <<>>
    /\ calls = [begun |-> 0, returned |-> 0]
    /\ io = NoIO

\* Geom.wrap(v); io keeps the argument and the result
Wrap ==
    /\ pc = "idle"
    /\ \E v \in Vectors :
          io' = [op |-> "wrap", v |-> v, wrapped_v |-> wrap(box_length, v)]
    /\ pc' = "returned"
    /\ UNCHANGED <<mcVars, geomVars, run, trial, fs, raised, rng_draws,
                   pair_history, calls>>

\* Geom.minimum_image_distance(r_i, coords) for coords one point, and for the
\* same point moved by k box lengths
MinimumImageDistance ==
    /\ pc = "idle"
    /\ \E r_i \in Points, r_j \in Vectors, k \in Shifts :
          io' = [op |-> "minimum_image_distance", r_i |-> r_i, r_j |-> r_j, k |-> k,
                 rij2 |-> minimum_image_distance(box_length, r_i, r_j),
                 rij2_shifted |->
                     minimum_image_distance(box_length, r_i,
                                            [c \in 1..Dim |-> r_j[c] + k[c] * box_length])]
    /\ pc' = "returned"
    /\ UNCHANGED <<mcVars, geomVars, run, trial, fs, raised, rng_draws,
                   pair_history, calls>>

GeomNext ==
    \/ Wrap
    \/ MinimumImageDistance

SpecGeom == GeomInit /\ [][GeomNext]_vars

\* C11: wrap(wrap(v)) = wrap(v), and every component of wrap(v) lies in
\* [-box_length/2, box_length/2), the odd multiples of box_length/2 included
C11_WrapIdempotentHalfOpen ==
    io.op = "wrap" =>
        /\ wrap(box_length, io.wrapped_v) = io.wrapped_v
        /\ \A c \in 1..Dim :
              /\ -box_length <= 2 * io.wrapped_v[c]
              /\ 2 * io.wrapped_v[c] < box_length

\* the smallest squared distance between p and the replicas of q
nearest_replica2(len, p, q) ==
    LET axis(c) ==
            LET d2(m) == (p[c] - q[c] - m * len) * (p[c] - q[c] - m * len)
                reach == (-(2 * MaxCoord + 2))..(2 * MaxCoord + 2)
            IN  CHOOSE best \in {d2(m) : m \in reach} :
                    \A m \in reach : best <= d2(m)
    IN  axis(1) + axis(2) + axis(3)

\* C12: the minimum-image squared distance of (p, q) equals that of
\* (p, q + k * box_length) for an integer vector k, and it is the smallest
\* squared distance between p and any periodic replica of q
C12_MinimumImagePeriodic ==
    io.op = "minimum_image_distance" =>
        /\ io.rij2 = io.rij2_shifted
        /\ io.rij2 = nearest_replica2(box_length, io.r_i, io.r_j)

\* C12 witness: the points of the package's test, 1 and 9 on one axis of a
\* box of length 10 (9 is -1 moved by one box length), at squared distance 4
C12_Witness ==
    /\ io.op = "minimum_image_distance"
    /\ box_length = 10
    /\ io.r_i = <<1, 0, 0>> /\ io.r_j = <<-1, 0, 0>> /\ io.k = <<1, 0, 0>>
    /\ io.rij2_shifted = 4

(***************************************************************************)
(* Energy.calculate_total_pair_energy on its own (energy.py lines 15-28),  *)
(* for up to MaxParticles particles on a small lattice in a box of length  *)
(* 4 with cutoff 2: pairs closer than, exactly at and beyond the cutoff,   *)
(* pairs that are nearest through the periodic boundary, and coincident    *)
(* particles all occur.                                                    *)
(***************************************************************************)
MaxParticles == 3  \* particles in a box whose energy is summed

EnergyPoints == {<<x, y, z>> : x \in {-1, 0, 1, 2}, y \in {0, 1}, z \in {0, 1}}

EnergyCoordinates == UNION {[1..n -> EnergyPoints] : n \in 1..MaxParticles}

EnergyInit ==
    /\ pkg \in Packages
    /\ beta = RDiv(FromInt(1), FromInt(1))
    /\ n_trials = 0
    /\ n_accept = 0
    /\ max_displacement = FromInt(1)
    /\ tune_displacement = TRUE
    /\ energy_array = <<>>
    /\ current_step = 0
    /\ cutoff = 2
    /\ coordinates \in EnergyCoordinates
    /\ num_particles = Len(coordinates)
    /\ box_length = 4
    /\ pc = "idle"
    /\ run = NoRun
    /\ trial = NoTrial
    /\ fs = EmptyFS
    /\ raised = "none"
    /\ rng_draws = 0
    /\ pair_history = <<>>
    /\ calls = [begun |-> 0, returned |-> 0]
    /\ io = NoIO

\* Energy.calculate_total_pair_energy(); io keeps the result
CalculateTotalPairEnergy ==
    /\ pc = "idle"
    /\ io' = [op |-> "calculate_total_pair_energy",
              e_total |-> calculate_total_pair_energy(coordinates, box_length, cutoff)]
    /\ pc' = "returned"
    /\ UNCHANGED <<mcVars, geomVars, run, trial, fs, raised, rng_draws,
                   pair_history, calls>>

EnergyNext == CalculateTotalPairEnergy

SpecEnergy == EnergyInit /\ [][EnergyNext]_vars

\* the pair potential summed over the unordered pairs {i, j}, i < j, whose
\* minimum-image squared distance is below cutoff^2, each taken once
pair_sum(coords, len, rc) ==
    LET pairs == {<<i, j>> \in (1..Len(coords)) \X (1..Len(coords)) : i < j}
        term(pr) ==
            LET rij2 == minimum_image_distance(len, coords[pr[1]], coords[pr[2]])
            IN  IF rij2 < rc * rc THEN lennard_jones_potential(rij2) ELSE 0
        sum[ps \in SUBSET pairs] ==
            IF ps = {} THEN 0
            ELSE LET pr == CHOOSE x \in ps : TRUE
                 IN  FAdd(term(pr), sum[ps \ {pr}])
    IN  sum[pairs]

\* C13: calculate_total_pair_energy returns the sum of the pair potential
\* over every unordered pair {i, j}, i # j, at a minimum-image squared
\* distance strictly below cutoff^2, each pair once; pairs at cutoff^2 or
\* beyond, and self-pairs, contribute nothing
C13_TotalPairEnergy ==
    io.op = "calculate_total_pair_energy" =>
        io.e_total = pair_sum(coordinates, box_length, cutoff)

\* C13 witness: three particles, two pairs at squared distance 2 and one
\* pair at exactly cutoff^2 = 4: the energy is twice the potential at 2
C13_Witness ==
    /\ io.op = "calculate_total_pair_energy"
    /\ coordinates = <<<<0, 0, 0>>, <<1, 1, 0>>, <<2, 0, 0>>>>
    /\ io.e_total = 2 * lennard_jones_potential(2)
    /\ io.e_total # 0

\* C14: get_energy on an engine on which run was never called raises the
\* precondition error (ValueError) instead of returning a trace
C14_GetEnergyBeforeRun ==
    (io.op = "get_energy" /\ calls.begun = 0 /\ current_step = 0) =>
        (raised = "ValueError" /\ ~io.returned)

(***************************************************************************)
(* Loading configuration files (geom.py lines 35-46) whose declared count  *)
(* and number of rows vary independently; every row has an index and three *)
(* coordinates.                                                            *)
(***************************************************************************)
MaxRows == 3       \* coordinate rows in a configuration file

config_text(declared, rows) ==
    <<<<4>>, <<declared>>>> \o [k \in 1..rows |-> <<k, k - 2, 0, 1>>]

ConfigTexts == {config_text(declared, rows) : declared \in 0..(MaxRows + 1), rows \in 1..MaxRows}

LoadInit ==
    /\ pkg \in Packages
    /\ beta = RDiv(FromInt(1), FromInt(1))
    /\ n_trials = 0
    /\ n_accept = 0
    /\ max_displacement = FromInt(1)
    /\ tune_displacement = TRUE
    /\ energy_array = <<>>
    /\ current_step = 0
    /\ cutoff = 2
    /\ coordinates \in InitialCoordinates
    /\ num_particles = Len(coordinates)
    /\ box_length = 4
    /\ pc = "idle"
    /\ run = NoRun
    /\ trial = NoTrial
    /\ \E text \in ConfigTexts :
          fs = [dirs |-> {},
                files |-> [f \in {ConfigPath("sample.txt")} |-> text],
                handles |-> 0]
    /\ raised = "none"
    /\ rng_draws = 0
    /\ pair_history = <<>>
    /\ calls = [begun |-> 0, returned |-> 0]
    /\ io = NoIO

LoadNext == GeomFromFile

SpecLoad == LoadInit /\ [][LoadNext]_vars

\* C15: loading a configuration file fails with the data-inconsistency
\* error (ValueError) if and only if the count declared on line 2 differs
\* from the number of coordinate rows, for every declared count and every
\* number of rows >= 1, a single row included
C15_CountMismatchIff ==
    (io.op = "Geom" /\ io.file_name = Some(ConfigPath("sample.txt"))) =>
        LET text == fs.files[ConfigPath("sample.txt")]
        IN  (io.geom.raised = "ValueError") <=> (text[2][1] # Len(text) - 2)

\* no two particles at the same place (through the boundary included)
no_coincidence ==
    \A i, j \in 1..Len(coordinates) :
        i # j => minimum_image_distance(box_length, coordinates[i], coordinates[j]) # 0

\* C16: after every step of a run, accepted or rejected, the running pair
\* energy kept by adding delta_e for the moved particle equals what
\* calculate_total_pair_energy returns for the current coordinates, provided
\* no two particles coincide
C16_IncrementalEnergy ==
    (pc = "check" /\ no_coincidence) =>
        run.total_pair_energy = calculate_total_pair_energy(coordinates, box_length, cutoff)

\* C16 witness: an accepted move that changed the energy, then a second
\* step, in one run
C16_Witness ==
    /\ pc = "check"
    /\ no_coincidence
    /\ run.i_step = 2
    /\ n_accept >= 1
    /\ run.total_pair_energy # pair_history[1]

\* C17: within a run call with logging frequency freq, the log / snapshot /
\* tuning event fires after a step exactly when the number of steps taken
\* in that call is a multiple of freq
C17_EventEveryFreqSteps ==
    [][(pc = "check" /\ pc' # "check") =>
          LET fired == Len(fs'.files[run.log]) = Len(fs.files[run.log]) + 1
          IN  fired <=> (run.i_step % run.freq = 0)]_vars

\* snapshots an earlier call left in the directory of the current call
earlier_snapshots ==
    \E path \in DOMAIN fs.files : path[1] = run.save_dir /\ path[2] = "snap"

\* C18: a run call with snapshot saving enabled, made after an earlier run
\* call saved snapshots into the same directory, never fails at a logging
\* checkpoint because of those snapshots
C18_ResumeWithSnapshots ==
    (pc = "idle" /\ calls.begun >= 2 /\ run.save_snaps /\ earlier_snapshots) =>
        raised # "ValueError"

\* C19: in every reachable state 0 <= n_accept <= n_trials, and whenever run
\* invokes the tuning rule n_trials >= 1, so the acceptance rate is defined
\* and lies in [0, 1]
C19_CountersOrdered ==
    /\ 0 <= n_accept
    /\ n_accept <= n_trials
    /\ (pc = "check" /\ log_event /\ tune_displacement) => n_trials >= 1

\* C19 witness: the tuning rule is about to run in a second run call, on a
\* window whose one trial was accepted
C19_Witness ==
    /\ pc = "check" /\ log_event /\ tune_displacement
    /\ calls.begun = 2
    /\ n_trials = 1 /\ n_accept = 1

\* C20: whenever run returns or raises, every file handle it opened has
\* been closed
C20_HandlesClosed ==
    pc = "idle" => fs.handles = 0

\* C21: each step changes the stored coordinate of at most one particle,
\* the particle chosen for that step; the other coordinates, the particle
\* count, the box length and the cutoff are unchanged by any step and by
\* any run call
C21_OneParticlePerStep ==
    [][/\ TrialStep =>
             /\ Len(coordinates') = Len(coordinates)
             /\ \A j \in 1..Len(coordinates) :
                   j # trial'.i_particle => coordinates'[j] = coordinates[j]
       /\ ~TrialStep => coordinates' = coordinates
       /\ num_particles' = num_particles
       /\ box_length' = box_length
       /\ cutoff' = cutoff]_vars

\* C21 witness: the third particle was moved by an accepted step, and a
\* later step on another particle was rejected
C21_Witness ==
    /\ pc = "check"
    /\ ~trial.accept /\ trial.i_particle # 3
    /\ coordinates[3] # <<1, 0, 1>>
    /\ coordinates[1] = <<0, 0, 0>> /\ coordinates[2] = <<0, 1, 0>>

\* C22: max_displacement, positive at construction, is positive in every
\* reachable state and changes only at a logging event of a run with
\* tuning enabled; with tuning disabled it keeps its construction value
C22_MaxDisplacementPositive ==
    [][/\ max_displacement[1] > 0 /\ max_displacement[2] > 0
       /\ max_displacement'[1] > 0 /\ max_displacement'[2] > 0
       /\ max_displacement' # max_displacement =>
             (pc = "check" /\ log_event /\ tune_displacement)
       /\ ~tune_displacement => max_displacement' = FromInt(1)]_vars

\* C22 witness: after a tuning event that enlarged it and one that shrank
\* it, max_displacement is 1.2 * 0.8 of its construction value
C22_Witness ==
    /\ tune_displacement
    /\ pc = "loop"
    /\ current_step = 2
    /\ max_displacement = Rat(96, 100)

====
